---- MODULE Spec2Model ----
(***************************************************************************)
(* A model of the nestjs-telegram request dispatcher.                      *)
(*                                                                         *)
(* One TelegramService instance is modelled together with its callers and  *)
(* the HTTP transport (HttpService) it posts to.  Two implementations of   *)
(* the service exist in the repository: src/telegram.service.ts, which     *)
(* always returns an Observable ("stream"), and                            *)
(* src/telegram/telegram.service.ts, which can also hand out a Promise     *)
(* ("promise").  The variable impl says which class was constructed.       *)
(*                                                                         *)
(* Optional JavaScript values are modelled as sequences of length 0 or 1:  *)
(* <<>> is undefined, <<v>> is the value v.  Strings whose structure       *)
(* matters (URLs, stringified numbers, messages) are sequences of pieces.  *)
(*                                                                         *)
(* A POST is an invocation of this.http.post, which is how the unit tests  *)
(* count it (postMock).  The caller subscribes once to the observable it   *)
(* gets, or awaits the promise; the transport then answers each call at a  *)
(* time of its own choosing with a response envelope or with a failure.    *)
(*                                                                         *)
(* TelegramException extends the framework's BadRequestException, which    *)
(* is outside the repository: its message property is the message it was   *)
(* constructed with (HttpException of @nestjs/common 7 and later, the      *)
(* versions @nestjs/axios runs with).  Telegram.Exception of the           *)
(* promise-capable class is taken to be the same class.  A failure         *)
(* envelope always has a description.                                      *)
(*                                                                         *)
(* registration and dynamicModule hold an asynchronous registration of     *)
(* the module (forRootAsync / registerAsync) and the DynamicModule it      *)
(* returned; the specifications of the service construct the service       *)
(* directly from its options, as the unit tests do, and leave both empty.  *)
(***************************************************************************)
EXTENDS Integers, Sequences, FiniteSets, TLC

VARIABLES impl, options, url, usePromise, calls, posts,
          registration, dynamicModule

vars == <<impl, options, url, usePromise, calls, posts,
          registration, dynamicModule>>

(***************************************************************************)
(* Bounds of the model.                                                    *)
(***************************************************************************)
\* number of facade calls a behaviour of Spec makes
MaxCalls == 2

\* number of facade calls a behaviour of SpecUpload makes
MaxUploads == 2

(***************************************************************************)
(* The facade: the methods of the two TelegramService classes.             *)
(***************************************************************************)
Impls == {"stream", "promise"}

\* methods without a Content-Type decision (doCall gets no axiosOptions)
PlainMethods ==
  {"getMe", "sendMessage", "forwardMessage", "sendLocation",
   "editMessageLiveLocation", "stopMessageLiveLocation", "sendVenue",
   "sendContact", "sendPoll", "sendChatAction", "getUserProfilePhotos",
   "getFile", "kickChatMember", "unbanChatMember", "restrictChatMember",
   "promoteChatMember", "exportChatInviteLink", "deleteChatPhoto",
   "setChatTitle", "setChatDescription", "pinChatMessage",
   "unpinChatMessage", "leaveChat", "getChat", "getChatAdministrators",
   "getChatMembersCount", "getChatMember", "setChatStickerSet",
   "deleteChatStickerSet", "answerCallbackQuery", "editMessageText",
   "editMessageCaption", "editMessageReplyMarkup", "stopPoll",
   "deleteMessage", "getStickerSet", "setStickerPositionInSet",
   "deleteStickerFromSet", "sendInvoice", "answerShippingQuery",
   "answerPreCheckoutQuery", "sendGame", "setGameScore", "getGameHighScore"}

\* methods that pass a Content-Type header to doCall
FileMethods ==
  {"sendPhoto", "sendAudio", "sendDocument", "sendVideo", "sendAnimation",
   "sendVoice", "sendVideoNote", "sendMediaGroup", "setChatPhoto",
   "editMessageMedia", "sendSticker", "uploadStickerFile",
   "createNewStickerSet", "addStickerToSet"}

\* the methods each class declares; getUpdates exists in the stream class only
Methods(i) ==
  IF i = "stream" THEN PlainMethods \cup FileMethods \cup {"getUpdates"}
                  ELSE PlainMethods \cup FileMethods

\* the name the method hands to doCall as the path segment: this.<m>.name
\* for every method but stopPoll, which passes this.editMessageReplyMarkup.name
NameArg(m) == IF m = "stopPoll" THEN "editMessageReplyMarkup" ELSE m

(***************************************************************************)
(* Parameter objects.  A parameter object is abstracted to the kind of     *)
(* each field the model looks at: absent, a string, or binary (a Buffer).  *)
(***************************************************************************)
Kinds == {"absent", "string", "binary"}

Fields ==
  {"photo", "audio", "document", "video", "animation", "voice",
   "video_note", "sticker", "png_sticker", "thumb", "media", "text"}

\* TypeOf taking a string for an object
TypeOf_StringIsObject(k) ==
  CASE k = "binary" -> "object"
    [] k = "string" -> "object"
    [] OTHER        -> "undefined"

\* typeof of a field of the given kind
TypeOf(k) ==
  CASE k = "binary" -> "object"
    [] k = "string" -> "string"
    [] OTHER        -> "undefined"

\* the empty object {}
EmptyData == [f \in Fields |-> "absent"]

\* the file field named after the method in its parameter type
MainField(m) ==
  CASE m = "sendPhoto"           -> "photo"
    [] m = "sendAudio"           -> "audio"
    [] m = "sendDocument"        -> "document"
    [] m = "sendVideo"           -> "video"
    [] m = "sendAnimation"       -> "animation"
    [] m = "sendVoice"           -> "voice"
    [] m = "sendVideoNote"       -> "video_note"
    [] m = "sendMediaGroup"      -> "media"
    [] m = "setChatPhoto"        -> "photo"
    [] m = "editMessageMedia"    -> "media"
    [] m = "sendSticker"         -> "sticker"
    [] m = "uploadStickerFile"   -> "png_sticker"
    [] m = "createNewStickerSet" -> "png_sticker"
    [] m = "addStickerToSet"     -> "png_sticker"
    [] OTHER                     -> "text"

\* the methods whose parameter type declares a thumb companion
ThumbMethods ==
  {"sendAudio", "sendDocument", "sendVideo", "sendAnimation", "sendVoice",
   "sendVideoNote"}

\* the parameter objects a caller passes to method m: its main field, a thumb
\* and a video_note field vary over all kinds (fields outside the method's
\* type included, as in the sendVoice tests); getMe takes no parameters
DataOf(m) ==
  IF m = "getMe" THEN {EmptyData}
  ELSE IF m \in FileMethods
  THEN {[EmptyData EXCEPT ![MainField(m)] = k, !["thumb"] = t]
          : k \in Kinds, t \in Kinds}
       \cup {[EmptyData EXCEPT !["video_note"] = v, ![MainField(m)] = k]
          : k \in Kinds, v \in Kinds}
  ELSE {[EmptyData EXCEPT !["text"] = k] : k \in {"absent", "string"}}

(***************************************************************************)
(* The Content-Type decision of each facade method.                        *)
(***************************************************************************)
Multipart == "multipart/form-data"
Json == "application/json"

\* InspectedFields with sendVoice testing video_note as well
InspectedFields_VoiceReadsVideoNote(i, m) ==
  CASE m = "sendPhoto"           -> {"photo"}
    [] m = "sendAudio"           -> {"audio", "thumb"}
    [] m = "sendDocument"        -> {"document", "thumb"}
    [] m = "sendVideo"           -> {"video", "thumb"}
    [] m = "sendAnimation"       -> {"animation", "thumb"}
    [] m = "sendVoice"           -> {"voice", "thumb", "video_note"}
    [] m = "sendVideoNote"       -> {"video_note", "thumb"}
    [] m = "sendSticker"         -> {"sticker"}
    [] m = "createNewStickerSet" -> {"png_sticker"}
    [] m = "addStickerToSet"     -> {"png_sticker"}
    [] m = "setChatPhoto" /\ i = "promise" -> {"photo"}
    [] OTHER                     -> {}

\* InspectedFields with the thumb test of sendAudio forgotten
InspectedFields_NoAudioThumb(i, m) ==
  CASE m = "sendPhoto"           -> {"photo"}
    [] m = "sendAudio"           -> {"audio"}
    [] m = "sendDocument"        -> {"document", "thumb"}
    [] m = "sendVideo"           -> {"video", "thumb"}
    [] m = "sendAnimation"       -> {"animation", "thumb"}
    [] m = "sendVoice"           -> {"voice", "thumb"}
    [] m = "sendVideoNote"       -> {"video_note", "thumb"}
    [] m = "sendSticker"         -> {"sticker"}
    [] m = "createNewStickerSet" -> {"png_sticker"}
    [] m = "addStickerToSet"     -> {"png_sticker"}
    [] m = "setChatPhoto" /\ i = "promise" -> {"photo"}
    [] OTHER                     -> {}

\* the fields the method tests with  typeof data.<f> === 'object'
InspectedFields(i, m) ==
  CASE m = "sendPhoto"           -> {"photo"}
    [] m = "sendAudio"           -> {"audio", "thumb"}
    [] m = "sendDocument"        -> {"document", "thumb"}
    [] m = "sendVideo"           -> {"video", "thumb"}
    [] m = "sendAnimation"       -> {"animation", "thumb"}
    [] m = "sendVoice"           -> {"voice", "thumb"}
    [] m = "sendVideoNote"       -> {"video_note", "thumb"}
    [] m = "sendSticker"         -> {"sticker"}
    [] m = "createNewStickerSet" -> {"png_sticker"}
    [] m = "addStickerToSet"     -> {"png_sticker"}
    [] m = "setChatPhoto" /\ i = "promise" -> {"photo"}
    [] OTHER                     -> {}

\* the methods that pass the multipart header whatever the data
AlwaysMultipart(i) ==
  IF i = "stream"
  THEN {"sendMediaGroup", "setChatPhoto", "editMessageMedia", "uploadStickerFile"}
  ELSE {"sendMediaGroup", "editMessageMedia", "uploadStickerFile"}

\* Headers adding an Accept header next to the Content-Type
Headers_WithAccept(ct) ==
  [h \in {"Content-Type", "Accept"} |->
     IF h = "Accept" THEN Json ELSE ct]

Headers(ct) == [h \in {"Content-Type"} |-> ct]

\* the axiosOptions argument the method passes to doCall (<<>>: none)
AxiosOptions(i, m, data) ==
  IF m \in AlwaysMultipart(i) THEN << Headers(Multipart) >>
  ELSE IF InspectedFields(i, m) # {}
  THEN << Headers(IF \E f \in InspectedFields(i, m) : TypeOf(data[f]) = "object"
                  THEN Multipart ELSE Json) >>
  ELSE << >>

(***************************************************************************)
(* Errors.  An error object is its class, its message and its code.        *)
(***************************************************************************)
\* new TelegramException(message, error): message as given, error as the code
TelegramException(message, error) ==
  [kind |-> "TelegramException", message |-> message, code |-> error]

\* the TypeError of reading a property of undefined
TypeError(property) ==
  [kind |-> "TypeError",
   message |-> << "Cannot read property '", property, "' of undefined" >>,
   code |-> << >>]

\* the errors the HTTP transport fails with (an AxiosError has its own code)
TransportErrors ==
  {[kind |-> "AxiosError", message |-> << "Network Error" >>,
    code |-> << << "ECONNABORTED" >> >>]}

(***************************************************************************)
(* The response envelope {ok, result?, error_code?, description?} and      *)
(* Number.prototype.toString.                                              *)
(***************************************************************************)
Results == {"user", "message"}

ErrorCodes == {400, 429}

Descriptions == {"Bad request"}

\* retry_after accompanies the rate limiting failure only
Envelopes ==
  {[ok |-> TRUE, result |-> << r >>, error_code |-> << >>,
    description |-> << >>, retry_after |-> << >>] : r \in Results}
  \cup
  {[ok |-> FALSE, result |-> << >>, error_code |-> c,
    description |-> << d >>,
    retry_after |-> IF c = << 429 >> THEN << 5 >> ELSE << >>]
     : c \in {<< >>} \cup {<< n >> : n \in ErrorCodes}, d \in Descriptions}

Digit(d) ==
  CASE d = 0 -> "0" [] d = 1 -> "1" [] d = 2 -> "2" [] d = 3 -> "3"
    [] d = 4 -> "4" [] d = 5 -> "5" [] d = 6 -> "6" [] d = 7 -> "7"
    [] d = 8 -> "8" [] OTHER -> "9"

RECURSIVE NumberToString(_)
\* the decimal digits of a natural number, most significant first
NumberToString(n) ==
  IF n < 10 THEN << Digit(n) >>
  ELSE Append(NumberToString(n \div 10), Digit(n % 10))

(***************************************************************************)
(* Observable notifications and the operators of doCall's pipe.            *)
(***************************************************************************)
NextN(v) == [type |-> "next", value |-> v, error |-> << >>]
ErrorN(e) == [type |-> "error", value |-> << >>, error |-> << e >>]
CompleteN == [type |-> "complete", value |-> << >>, error |-> << >>]

\* what the transport's observable emits for a response / for a failure
ResponseNotifications(env) == << NextN([data |-> env]), CompleteN >>
FailureNotifications(err) == << ErrorN(err) >>

\* MapProject reading result off the axios response: res.result, undefined
MapProject_ReadsResultOffResponse(res) ==
  IF ~ res.data.ok
  THEN IF res.data.error_code = << >>
       THEN ErrorN(TypeError("toString"))
       ELSE ErrorN(TelegramException(res.data.description,
                                     << NumberToString(res.data.error_code[1]) >>))
  ELSE NextN(<< >>)

\* MapProject without the ok test
MapProject_NoThrow(res) == NextN(res.data.result)

\* the projection given to map(): throws on a falsy ok, else returns result
MapProject(res) ==
  IF ~ res.data.ok
  THEN IF res.data.error_code = << >>
       THEN ErrorN(TypeError("toString"))
       ELSE ErrorN(TelegramException(res.data.description,
                                     << NumberToString(res.data.error_code[1]) >>))
  ELSE NextN(res.data.result)

RECURSIVE MapOperator_EmitsBeforeThrow(_)
\* MapOperator letting the raw value through before the projection's error
MapOperator_EmitsBeforeThrow(ns) ==
  IF ns = << >> THEN << >>
  ELSE LET n == Head(ns) IN
       IF n.type = "next"
       THEN LET p == MapProject(n.value) IN
            IF p.type = "error" THEN << NextN(n.value), p >>
            ELSE << p >> \o MapOperator_EmitsBeforeThrow(Tail(ns))
       ELSE << n >>

RECURSIVE MapOperator(_)
\* map(project): projects every value; a throwing projection errors the
\* stream, which then emits nothing more
MapOperator(ns) ==
  IF ns = << >> THEN << >>
  ELSE LET n == Head(ns) IN
       IF n.type = "next"
       THEN LET p == MapProject(n.value) IN
            IF p.type = "error" THEN << p >>
            ELSE << p >> \o MapOperator(Tail(ns))
       ELSE << n >>

\* CatchSelector copying the caught error's code
CatchSelector_KeepsCode(error) ==
  ErrorN(TelegramException(error.message, error.code))

\* CatchSelector rethrowing what it caught
CatchSelector_Rethrow(error) == ErrorN(error)

\* the selector given to catchError(): rethrows with the message only
CatchSelector(error) == ErrorN(TelegramException(error.message, << >>))

RECURSIVE CatchErrorOperator_NeverSettles(_)
\* CatchErrorOperator whose selector returns a stream that never emits
CatchErrorOperator_NeverSettles(ns) ==
  IF ns = << >> THEN << >>
  ELSE LET n == Head(ns) IN
       IF n.type = "error" THEN << >>
       ELSE IF n.type = "complete" THEN << n >>
       ELSE << n >> \o CatchErrorOperator_NeverSettles(Tail(ns))

RECURSIVE CatchErrorOperator(_)
\* catchError(selector): values and completion pass, an error is replaced
\* by what the selector throws
CatchErrorOperator(ns) ==
  IF ns = << >> THEN << >>
  ELSE LET n == Head(ns) IN
       IF n.type = "error" THEN << CatchSelector(n.error[1]) >>
       ELSE IF n.type = "complete" THEN << n >>
       ELSE << n >> \o CatchErrorOperator(Tail(ns))

\* callout$: the transport's observable piped through map and catchError
Callout(ns) == CatchErrorOperator(MapOperator(ns))

(***************************************************************************)
(* Delivery to the caller.  An event is what the caller observes.          *)
(***************************************************************************)
Event(ch, v, e) == [ch |-> ch, value |-> v, error |-> e]

RECURSIVE Subscribe(_)
\* the caller's observer: one event per notification
Subscribe(ns) ==
  IF ns = << >> THEN << >>
  ELSE << Event(Head(ns).type, Head(ns).value, Head(ns).error) >>
       \o Subscribe(Tail(ns))

\* ToPromise resolving without the value it was given
ToPromise_ResolvesUndefined(ns, last) ==
  IF ns = << >> THEN << >>
  ELSE IF Head(ns).type = "error"
  THEN << Event("reject", << >>, Head(ns).error) >>
  ELSE << Event("resolve", << >>, << >>) >>

RECURSIVE ToPromise(_, _)
\* toPromise(): resolves with the last value on completion, rejects on error
ToPromise(ns, last) ==
  IF ns = << >> THEN << >>
  ELSE LET n == Head(ns) IN
       CASE n.type = "next"     -> ToPromise(Tail(ns), n.value)
         [] n.type = "complete" -> << Event("resolve", last, << >>) >>
         [] OTHER               -> << Event("reject", << >>, n.error) >>

\* the events a call in the given delivery mode observes for the notifications
Deliver(mode, ns) ==
  IF mode = "promise" THEN ToPromise(Callout(ns), << >>)
  ELSE Subscribe(Callout(ns))

(***************************************************************************)
(* The service object.                                                     *)
(***************************************************************************)
BotKeys == {"someBotKey"}

\* the promise flag of the module options: not given, true or false
PromiseFlags == {<< >>, << TRUE >>, << FALSE >>}

\* JavaScript truthiness of an optional boolean
Truthy(b) == b = << TRUE >>

\* `https://api.telegram.org/bot${botKey}/`
BaseUrl(botKey) == << "https://api.telegram.org/bot", botKey, "/" >>

\* this.url + url, an undefined this.url being coerced to "undefined"
Concat(u, name) ==
  (IF u = << >> THEN << "undefined" >> ELSE u[1]) \o << name >>

\* the per-call options argument of the promise-capable class: omitted, {},
\* {promise: true} or {promise: false}; the stream class takes none
OptionsOf(i) ==
  IF i = "stream" THEN {<< >>}
  ELSE {<< >>} \cup {<< [promise |-> f] >> : f \in PromiseFlags}

\* the delivery doCall chooses: the stream class returns the observable; the
\* promise-capable class reads options.promise, which throws when options
\* was omitted, and returns callout$.toPromise() when it or usePromise is set
DeliveryMode(i, opts, flag) ==
  IF i = "stream" THEN "stream"
  ELSE IF opts = << >> THEN "threw"
  ELSE IF Truthy(opts[1].promise) \/ Truthy(flag) THEN "promise"
  ELSE "stream"

\* PostsOfCall posting a second time
PostsOfCall_Twice(c, u, name, data, axiosOptions) ==
  << [call |-> c, url |-> Concat(u, name), data |-> data,
      config |-> axiosOptions],
     [call |-> c, url |-> Concat(u, name), data |-> data,
      config |-> axiosOptions] >>

\* PostsOfCall posting for the first call only
PostsOfCall_Cached(c, u, name, data, axiosOptions) ==
  IF c > 1 THEN << >>
  ELSE << [call |-> c, url |-> Concat(u, name), data |-> data,
           config |-> axiosOptions] >>

\* PostsOfCall posting an empty body whatever the parameter object
PostsOfCall_EmptyBody(c, u, name, data, axiosOptions) ==
  << [call |-> c, url |-> Concat(u, name), data |-> EmptyData,
      config |-> axiosOptions] >>

\* the invocations of http.post one doCall makes
PostsOfCall(c, u, name, data, axiosOptions) ==
  << [call |-> c, url |-> Concat(u, name), data |-> data,
      config |-> axiosOptions] >>

\* the record of a call right after the facade method returned (or threw)
NewCall(i, m, data, opts, flag) ==
  LET mode == DeliveryMode(i, opts, flag) IN
  [method |-> m, data |-> data, opts |-> opts, mode |-> mode,
   pc |-> IF mode = "threw" THEN "settled" ELSE "inflight",
   answer |-> << >>,
   events |-> IF mode = "threw"
              THEN << Event("throw", << >>, << TypeError("promise") >>) >>
              ELSE << >>]

(***************************************************************************)
(* The state machine.                                                      *)
(***************************************************************************)
Init ==
  /\ impl \in Impls
  /\ options \in {[botKey |-> k, promise |-> f]
                    : k \in BotKeys,
                      f \in IF impl = "promise" THEN PromiseFlags ELSE {<< >>}}
  /\ url = << >>
  /\ usePromise = << >>
  /\ calls = << >>
  /\ posts = << >>
  /\ registration = << >>
  /\ dynamicModule = << >>

\* onModuleInit(): the framework's lifecycle hook, run once
OnModuleInit ==
  /\ url = << >>
  /\ url' = << BaseUrl(options.botKey) >>
  /\ usePromise' = IF impl = "promise"
                   THEN << Truthy(options.promise) >>
                   ELSE usePromise
  /\ UNCHANGED <<impl, options, calls, posts, registration, dynamicModule>>

\* Call with a doCall that accumulates the method name into this.url
Call_AppendsToUrl(M, limit) ==
  /\ Len(calls) < limit
  /\ \E m \in M \cap Methods(impl) :
       \E data \in DataOf(m) :
         \E opts \in OptionsOf(impl) :
           /\ posts' = posts \o PostsOfCall(Len(calls) + 1, url, NameArg(m),
                                            data, AxiosOptions(impl, m, data))
           /\ calls' = Append(calls, NewCall(impl, m, data, opts, usePromise))
           /\ url' = << Concat(url, NameArg(m)) >>
  /\ UNCHANGED <<impl, options, usePromise, registration, dynamicModule>>

\* a caller invokes facade method m with parameter object data (and options):
\* the method computes its axiosOptions and runs doCall, and the caller
\* subscribes to (or awaits) what it got back
Call(M, limit) ==
  /\ Len(calls) < limit
  /\ \E m \in M \cap Methods(impl) :
       \E data \in DataOf(m) :
         \E opts \in OptionsOf(impl) :
           /\ posts' = posts \o PostsOfCall(Len(calls) + 1, url, NameArg(m),
                                            data, AxiosOptions(impl, m, data))
           /\ calls' = Append(calls, NewCall(impl, m, data, opts, usePromise))
  /\ UNCHANGED <<impl, options, url, usePromise, registration, dynamicModule>>

\* Answer with one subject shared by the calls in flight: every waiting
\* caller is handed the outcome of the answered one
Answer_SharedSubject(c, ns) ==
  /\ calls[c].pc = "inflight"
  /\ calls' = [k \in DOMAIN calls |->
                 IF calls[k].pc # "inflight" THEN calls[k]
                 ELSE [calls[k] EXCEPT
                         !.pc = IF k = c THEN "settled" ELSE @,
                         !.answer = IF k = c THEN << ns >> ELSE @,
                         !.events = @ \o Deliver(calls[k].mode, ns)]]
  /\ UNCHANGED <<impl, options, url, usePromise, posts, registration,
                 dynamicModule>>

\* the transport's observable of call c emits ns; the pipe and the delivery
\* run to the end in the same step
Answer(c, ns) ==
  /\ calls[c].pc = "inflight"
  /\ calls' = [calls EXCEPT ![c].pc = "settled",
                            ![c].answer = << ns >>,
                            ![c].events = @ \o Deliver(calls[c].mode, ns)]
  /\ UNCHANGED <<impl, options, url, usePromise, posts, registration,
                 dynamicModule>>

\* the transport answers call c with a response envelope out of E
HttpResponse(E) ==
  \E c \in DOMAIN calls : \E env \in E :
    Answer(c, ResponseNotifications(env))

\* the transport fails call c
HttpFailure ==
  \E c \in DOMAIN calls : \E err \in TransportErrors :
    Answer(c, FailureNotifications(err))

\* the methods the callers of Spec use
SampleMethods == {"getMe", "sendMessage"}

\* the responses the transport of Spec gives: the successes and the rate
\* limiting failure
SampleEnvelopes == {env \in Envelopes : env.ok \/ env.retry_after # << >>}

CallSample == Call(SampleMethods, MaxCalls)

HttpResponseSample == HttpResponse(SampleEnvelopes)

Next == OnModuleInit \/ CallSample \/ HttpResponseSample \/ HttpFailure

\* several calls, possibly in flight together, of a few methods
Spec == Init /\ [][Next]_vars

CallAny == Call(PlainMethods \cup FileMethods \cup {"getUpdates"}, 1)

HttpResponseAny == HttpResponse(Envelopes)

NextFacade == OnModuleInit \/ CallAny \/ HttpResponseAny \/ HttpFailure

\* one call of any facade method with any parameter object
SpecFacade == Init /\ [][NextFacade]_vars

\* the file methods the callers of SpecUpload use: one with a thumb
\* companion and one without
UploadSample == {"sendVoice", "sendPhoto"}

\* the response the transport of SpecUpload gives
UploadEnvelopes == {env \in Envelopes : env.ok /\ env.result = << "message" >>}

\* the per-call options of the callers of SpecUpload: none in the stream
\* class, {} in the promise-capable class
UploadOptions(i) == IF i = "stream" THEN << >> ELSE << [promise |-> << >>] >>

\* the callers of SpecUpload call once the module has been initialised
CallUpload ==
  /\ url # << >>
  /\ Call(UploadSample, MaxUploads)
  /\ calls'[Len(calls')].opts = UploadOptions(impl)

HttpResponseUpload == HttpResponse(UploadEnvelopes)

NextUpload == OnModuleInit \/ CallUpload \/ HttpResponseUpload

\* several calls of file methods with any parameter object, each answered
\* or left in flight
SpecUpload == Init /\ [][NextUpload]_vars

\* the responses the transport of SpecLive gives: getMe's success and the
\* rate limiting failure
LiveEnvelopes ==
  {env \in Envelopes :
     (env.ok /\ env.result = << "user" >>) \/ env.retry_after # << >>}

CallLive == Call({"getMe"}, MaxCalls)

HttpResponseLive == HttpResponse(LiveEnvelopes)

\* the transport answers call c, with a response or with a failure
TransportAnswers(c) ==
  /\ c \in DOMAIN calls
  /\ \E ns \in {ResponseNotifications(env) : env \in LiveEnvelopes}
               \cup {FailureNotifications(err) : err \in TransportErrors} :
       Answer(c, ns)

NextLive == OnModuleInit \/ CallLive \/ HttpResponseLive \/ HttpFailure

\* several calls of getMe whose transport does answer every request it was
\* given: a request in flight is not left unanswered for ever
SpecLive ==
  /\ Init /\ [][NextLive]_vars
  /\ \A c \in 1..MaxCalls : WF_vars(TransportAnswers(c))

(***************************************************************************)
(* Asynchronous registration of the module.  forRootAsync of               *)
(* src/telegram.module.ts and registerAsync of                             *)
(* src/telegram/telegram.module.ts have the same body.  Injection tokens,  *)
(* classes, factories and imported modules are names.                      *)
(***************************************************************************)
TELEGRAM_MODULE_OPTIONS == << "TELEGRAM_MODULE_OPTIONS" >>

\* a || b on optional values whose present values are all truthy (objects,
\* functions, arrays)
Or(a, b) == IF a # << >> THEN a ELSE b

\* the TelegramModuleAsyncOptions a caller passes: each of useFactory,
\* useExisting, useClass, inject and imports given or not
AsyncOptions ==
  [useFactory  : {<< >>, << "factory" >>},
   useExisting : {<< >>, << "ExistingConfig" >>},
   useClass    : {<< >>, << "ClassConfig" >>},
   inject      : {<< >>, << << >> >>, << << << "Config" >> >> >>},
   imports     : {<< >>, << << >> >>, << << "ConfigModule" >> >>}]

\* a provider object; the members it does not have are << >>
Provider(provide, useFactory, useClass, inject) ==
  [provide |-> provide, useFactory |-> useFactory, useClass |-> useClass,
   inject |-> inject]

\* CreateAsyncOptionsProvider preferring useClass to useExisting
CreateAsyncOptionsProvider_ClassFirst(o) ==
  IF o.useFactory # << >>
  THEN Provider(TELEGRAM_MODULE_OPTIONS, o.useFactory, << >>,
                Or(o.inject, << << >> >>)[1])
  ELSE Provider(TELEGRAM_MODULE_OPTIONS, << "createTelegramOptions" >>, << >>,
                << Or(o.useClass, o.useExisting) >>)

\* the options provider: the caller's factory with its inject list, or a
\* factory calling createTelegramOptions() on the injected useExisting or
\* useClass instance
CreateAsyncOptionsProvider(o) ==
  IF o.useFactory # << >>
  THEN Provider(TELEGRAM_MODULE_OPTIONS, o.useFactory, << >>,
                Or(o.inject, << << >> >>)[1])
  ELSE Provider(TELEGRAM_MODULE_OPTIONS, << "createTelegramOptions" >>, << >>,
                << Or(o.useExisting, o.useClass) >>)

\* CreateAsyncProvider looking at useFactory only
CreateAsyncProvider_FactoryOnly(o) ==
  IF o.useFactory # << >>
  THEN << CreateAsyncOptionsProvider(o) >>
  ELSE << CreateAsyncOptionsProvider(o),
          Provider(o.useClass, << >>, o.useClass, << >>) >>

\* the providers of the dynamic module
CreateAsyncProvider(o) ==
  IF o.useExisting # << >> \/ o.useFactory # << >>
  THEN << CreateAsyncOptionsProvider(o) >>
  ELSE << CreateAsyncOptionsProvider(o),
          Provider(o.useClass, << >>, o.useClass, << >>) >>

\* forRootAsync(options) / registerAsync(options)
ForRootAsync(o) ==
  [module |-> "TelegramModule",
   imports |-> Or(o.imports, << << >> >>)[1],
   providers |-> CreateAsyncProvider(o)]

\* the application registers the module asynchronously
RegisterAsync ==
  /\ dynamicModule = << >>
  /\ \E o \in AsyncOptions :
       /\ registration' = << o >>
       /\ dynamicModule' = << ForRootAsync(o) >>
  /\ UNCHANGED <<impl, options, url, usePromise, calls, posts>>

\* what the application's factory returns for the instances injected into
\* it: its own key, or the key of the configuration it was given
UseFactory(args) ==
  [botKey |-> IF args = << >> THEN "someKey" ELSE "injectedKey",
   promise |-> << >>]

\* createTelegramOptions() of the options factory instance of a class
CreateTelegramOptions(class) ==
  [botKey |-> IF class = "ExistingConfig" THEN "existingKey" ELSE "classKey",
   promise |-> << >>]

\* the framework calls the provider's useFactory with the instances of its
\* inject tokens; the factory the module wraps around the options factory
\* calls createTelegramOptions() on its one argument
ApplyFactory(provider) ==
  IF provider.useFactory = << "createTelegramOptions" >>
  THEN CreateTelegramOptions(provider.inject[1][1])
  ELSE UseFactory(provider.inject)

\* the framework resolves the TELEGRAM_MODULE_OPTIONS provider of the
\* registered module, which becomes the options injected into the service;
\* it resolves nothing when an inject token is undefined
ResolveOptions ==
  /\ dynamicModule # << >>
  /\ LET provider == dynamicModule[1].providers[1] IN
       /\ \A k \in DOMAIN provider.inject : provider.inject[k] # << >>
       /\ options # ApplyFactory(provider)
       /\ options' = ApplyFactory(provider)
  /\ UNCHANGED <<impl, url, usePromise, calls, posts, registration,
                 dynamicModule>>

NextModule == RegisterAsync \/ ResolveOptions

\* one asynchronous registration with any combination of options, and the
\* resolution of the options it provides
SpecModule == Init /\ [][NextModule]_vars

(***************************************************************************)
(* What a caller observed, and what the transport answered.                *)
(***************************************************************************)
\* the calls the transport has answered with a response envelope
IsResponse(c) ==
  /\ calls[c].answer # << >>
  /\ calls[c].answer[1][1].type = "next"

\* the calls the transport has failed
IsFailure(c) ==
  /\ calls[c].answer # << >>
  /\ calls[c].answer[1][1].type = "error"

EnvelopeOf(c) == calls[c].answer[1][1].value.data

TransportErrorOf(c) == calls[c].answer[1][1].error[1]

\* the events of call c on the given channels, in order
RECURSIVE OnChannels(_, _)
OnChannels(evs, chs) ==
  IF evs = << >> THEN << >>
  ELSE IF Head(evs).ch \in chs THEN << Head(evs) >> \o OnChannels(Tail(evs), chs)
  ELSE OnChannels(Tail(evs), chs)

ValueChannels == {"next", "resolve"}
FailureChannels == {"error", "reject"}

ValuesOf(c) == OnChannels(calls[c].events, ValueChannels)
ErrorsOf(c) == OnChannels(calls[c].events, FailureChannels)

(***************************************************************************)
(* C1.  A response whose envelope has ok = true delivers exactly the       *)
(* envelope's result to the caller: one value, equal to result, and no     *)
(* error, for every facade method and both delivery modes.                 *)
(***************************************************************************)
C1_SuccessDeliversResult ==
  \A c \in DOMAIN calls :
    (IsResponse(c) /\ EnvelopeOf(c).ok) =>
      /\ Len(ValuesOf(c)) = 1
      /\ ValuesOf(c)[1].value = EnvelopeOf(c).result
      /\ ErrorsOf(c) = << >>

\* sendMessage answered {ok: true, result: message} has emitted message
C1_Witness ==
  \E c \in DOMAIN calls :
    /\ calls[c].method = "sendMessage"
    /\ IsResponse(c) /\ EnvelopeOf(c).ok
    /\ EnvelopeOf(c).result = << "message" >>
    /\ calls[c].events[1] = Event("next", << "message" >>, << >>)

(***************************************************************************)
(* C2.  A response whose envelope has ok = false fails the call with an    *)
(* error whose message is the envelope's description and whose code is     *)
(* the stringified error_code ({ok: false, error_code: 400, description:   *)
(* "Bad request"} gives message "Bad request" and code "400").             *)
(***************************************************************************)
C2_FailureCarriesDescriptionAndCode ==
  \A c \in DOMAIN calls :
    (IsResponse(c) /\ ~ EnvelopeOf(c).ok /\ EnvelopeOf(c).error_code # << >>) =>
      /\ Len(ErrorsOf(c)) = 1
      /\ ErrorsOf(c)[1].error[1].message = EnvelopeOf(c).description
      /\ ErrorsOf(c)[1].error[1].code
           = << NumberToString(EnvelopeOf(c).error_code[1]) >>

(***************************************************************************)
(* C3.  A failure of the transport itself fails the call with an error     *)
(* whose message is the transport error's message and which carries no     *)
(* code.                                                                   *)
(***************************************************************************)
C3_TransportFailureMessageNoCode ==
  \A c \in DOMAIN calls :
    IsFailure(c) =>
      /\ Len(ErrorsOf(c)) = 1
      /\ ErrorsOf(c)[1].error[1].message = TransportErrorOf(c).message
      /\ ErrorsOf(c)[1].error[1].code = << >>
      /\ ValuesOf(c) = << >>

\* getMe on the stream class failed with "Network Error"
C3_Witness ==
  \E c \in DOMAIN calls :
    /\ IsFailure(c)
    /\ TransportErrorOf(c).code # << >>
    /\ Len(calls[c].events) = 1
    /\ calls[c].events[1].ch \in FailureChannels
    /\ calls[c].events[1].error[1].message = << "Network Error" >>

(***************************************************************************)
(* The POSTs of a call.                                                    *)
(***************************************************************************)
\* the positions in the log of the http.post invocations made for call c
PostsFor(c) == {j \in DOMAIN posts : posts[j].call = c}

\* the Content-Type a POST was issued with (<<>>: none given, the
\* transport's default applies)
ContentTypeOf(p) ==
  IF p.config = << >> THEN << >> ELSE << p.config[1]["Content-Type"] >>

\* the methods with a file field that is either a Buffer or a string
UploadMethods ==
  {"sendPhoto", "sendAudio", "sendDocument", "sendVideo", "sendAnimation",
   "sendVoice", "sendVideoNote", "sendSticker", "createNewStickerSet",
   "addStickerToSet"}

\* binary content in the main file field or in the method's thumb companion
HasBinaryFile(m, data) ==
  \/ data[MainField(m)] = "binary"
  \/ m \in ThumbMethods /\ data["thumb"] = "binary"

(***************************************************************************)
(* C4.  A call of an upload method whose main file field, or whose thumb   *)
(* companion, is binary content is posted with Content-Type                *)
(* multipart/form-data.                                                    *)
(***************************************************************************)
C4_BinarySelectsMultipart ==
  \A c \in DOMAIN calls :
    (calls[c].method \in UploadMethods
       /\ HasBinaryFile(calls[c].method, calls[c].data)) =>
      /\ PostsFor(c) # {}
      /\ \A j \in PostsFor(c) : ContentTypeOf(posts[j]) = << Multipart >>

\* sendAudio with a string audio and a binary thumb was posted as multipart
C4_Witness ==
  \E c \in DOMAIN calls : \E j \in PostsFor(c) :
    /\ calls[c].method = "sendAudio"
    /\ calls[c].data["audio"] = "string"
    /\ calls[c].data["thumb"] = "binary"
    /\ posts[j].config = << Headers(Multipart) >>

C6_PostsToOwnMethodName ==
  \A c \in DOMAIN calls : \A j \in PostsFor(c) :
    /\ posts[j].url[Len(posts[j].url)] = calls[c].method
    /\ posts[j].url[1] # "undefined" =>
         posts[j].url = BaseUrl(options.botKey) \o << calls[c].method >>

(***************************************************************************)
(* C7.  Every facade call issues exactly one POST, whatever its outcome:   *)
(* in every state, in flight or settled by a success, by an ok = false     *)
(* response (retry_after included) or by a transport failure, the log      *)
(* holds one POST per call.                                                *)
(***************************************************************************)
C7_ExactlyOnePost ==
  /\ Len(posts) = Len(calls)
  /\ \A c \in DOMAIN calls : Cardinality(PostsFor(c)) = 1

\* a call settled by the rate limiting failure, still with its one POST
C7_Witness ==
  \E c \in DOMAIN calls :
    /\ calls[c].pc = "settled"
    /\ IsResponse(c)
    /\ EnvelopeOf(c).retry_after # << >>
    /\ ErrorsOf(c) # << >>
    /\ Cardinality(PostsFor(c)) = 1

(***************************************************************************)
(* C8.  No caching: two getMe calls answered with the same success         *)
(* response deliver the same events, each has a POST of its own, and the   *)
(* value any call delivers is the result of the response to its own POST.  *)
(***************************************************************************)
C8_NoCaching ==
  /\ \A c, d \in DOMAIN calls :
       (c # d /\ calls[c].method = "getMe" /\ calls[d].method = "getMe"
          /\ IsResponse(c) /\ IsResponse(d) /\ EnvelopeOf(c).ok
          /\ EnvelopeOf(c) = EnvelopeOf(d) /\ calls[c].mode = calls[d].mode) =>
         /\ calls[c].events = calls[d].events
         /\ PostsFor(c) # {} /\ PostsFor(d) # {}
         /\ PostsFor(c) \cap PostsFor(d) = {}
  /\ \A c \in DOMAIN calls :
       ValuesOf(c) # << >> =>
         /\ PostsFor(c) # {}
         /\ IsResponse(c)
         /\ \A k \in DOMAIN ValuesOf(c) :
              ValuesOf(c)[k].value = EnvelopeOf(c).result

\* getMe called twice, both answered {ok: true, result: user}
C8_Witness ==
  \E c, d \in DOMAIN calls :
    /\ c < d
    /\ calls[c].method = "getMe" /\ calls[d].method = "getMe"
    /\ IsResponse(c) /\ IsResponse(d)
    /\ EnvelopeOf(c).result = << "user" >>
    /\ EnvelopeOf(d).result = << "user" >>
    /\ ValuesOf(c) # << >> /\ ValuesOf(d) = ValuesOf(c)

(***************************************************************************)
(* C9.  A failed call, by an ok = false response or by a transport         *)
(* failure, reaches its caller through the failure channel only: a stream  *)
(* signals error and emits no value, a promise rejects and never resolves. *)
(***************************************************************************)
C9_FailureChannelOnly ==
  \A c \in DOMAIN calls :
    (IsFailure(c) \/ (IsResponse(c) /\ ~ EnvelopeOf(c).ok)) =>
      /\ Len(calls[c].events) = 1
      /\ calls[c].events[1].ch
           = (IF calls[c].mode = "promise" THEN "reject" ELSE "error")
      /\ calls[c].events[1].error # << >>

\* a promise rejected for an ok = false response
C9_Witness ==
  \E c \in DOMAIN calls :
    /\ calls[c].mode = "promise"
    /\ IsResponse(c) /\ ~ EnvelopeOf(c).ok
    /\ calls[c].events[1].ch = "reject"

RECURSIVE Payloads(_)
Payloads(evs) ==
  IF evs = << >> THEN << >>
  ELSE << [value |-> Head(evs).value, error |-> Head(evs).error] >>
       \o Payloads(Tail(evs))

C11_PromiseIsPresentationOnly ==
  impl = "promise" =>
    \A c, d \in DOMAIN calls :
      (calls[c].mode = "promise" /\ calls[d].mode = "stream"
         /\ calls[c].method = calls[d].method
         /\ calls[c].data = calls[d].data) =>
        /\ Cardinality(PostsFor(c)) = 1 /\ Cardinality(PostsFor(d)) = 1
        /\ \A j \in PostsFor(c) : \A k \in PostsFor(d) :
             /\ posts[j].data = posts[k].data
             /\ posts[j].config = posts[k].config
             /\ posts[j].url[1] = posts[k].url[1] => posts[j].url = posts[k].url
        /\ (calls[c].answer # << >> /\ calls[c].answer = calls[d].answer) =>
             /\ Payloads(ValuesOf(c)) = Payloads(ValuesOf(d))
             /\ Payloads(ErrorsOf(c)) = Payloads(ErrorsOf(d))
             /\ Len(ValuesOf(c)) + Len(ErrorsOf(c)) = 1

\* sendMessage once with {promise: true} and once with {}, both answered
\* {ok: true, result: message}: one promise resolved, one stream emitted
C11_Witness ==
  \E c, d \in DOMAIN calls :
    /\ impl = "promise"
    /\ calls[c].method = "sendMessage" /\ calls[d].method = "sendMessage"
    /\ calls[c].data = calls[d].data
    /\ calls[c].opts = << [promise |-> << TRUE >>] >>
    /\ calls[d].opts = << [promise |-> << >>] >>
    /\ calls[c].mode = "promise" /\ calls[d].mode = "stream"
    /\ IsResponse(c) /\ calls[c].answer = calls[d].answer
    /\ calls[c].events = << Event("resolve", << "message" >>, << >>) >>
    /\ calls[d].events[1] = Event("next", << "message" >>, << >>)

(***************************************************************************)
(* C12.  Calls in flight together do not interfere: whatever the order in  *)
(* which the answers arrive, a caller whose request has not been answered  *)
(* has received nothing, and a caller whose request has been answered has  *)
(* received the outcome of its own answer: the result of its own envelope, *)
(* or one error with the description of its own envelope, or one error     *)
(* with the message of its own transport failure.                          *)
(***************************************************************************)
C12_OwnOutcomeOnly ==
  \A c \in DOMAIN calls :
    /\ calls[c].answer = << >> =>
         ValuesOf(c) = << >> /\ ErrorsOf(c) = << >>
    /\ (IsResponse(c) /\ EnvelopeOf(c).ok) =>
         /\ Len(ValuesOf(c)) = 1
         /\ ValuesOf(c)[1].value = EnvelopeOf(c).result
         /\ ErrorsOf(c) = << >>
    /\ (IsResponse(c) /\ ~ EnvelopeOf(c).ok) =>
         /\ ValuesOf(c) = << >>
         /\ Len(ErrorsOf(c)) = 1
         /\ ErrorsOf(c)[1].error[1].message = EnvelopeOf(c).description
    /\ IsFailure(c) =>
         /\ ValuesOf(c) = << >>
         /\ Len(ErrorsOf(c)) = 1
         /\ ErrorsOf(c)[1].error[1].message = TransportErrorOf(c).message

\* getMe was issued first and is still in flight; sendMessage, issued after
\* it, has been answered first and has emitted its own message
C12_Witness ==
  \E c, d \in DOMAIN calls :
    /\ c < d
    /\ calls[c].method = "getMe" /\ calls[c].pc = "inflight"
    /\ calls[c].events = << >>
    /\ calls[d].method = "sendMessage"
    /\ IsResponse(d) /\ EnvelopeOf(d).result = << "message" >>
    /\ Len(ValuesOf(d)) = 1 /\ ValuesOf(d)[1].value = << "message" >>

(***************************************************************************)
(* C13.  The dispatcher holds no mutable state across calls: no step       *)
(* changes the options object; a step in which a facade method is called   *)
(* or a call is answered (successfully or not) leaves the base URL and     *)
(* the promise flag as they were; and once onModuleInit has written them   *)
(* no step changes them again.                                             *)
(***************************************************************************)
C13_ServiceStateWrittenOnlyByInit ==
  [][ /\ options' = options
      /\ (calls' # calls \/ posts' # posts \/ url # << >>) =>
           (url' = url /\ usePromise' = usePromise) ]_vars

\* after onModuleInit one call has failed and another is in flight, and the
\* base URL and the promise flag are still the ones onModuleInit wrote
C13_Witness ==
  \E c, d \in DOMAIN calls :
    /\ url = << BaseUrl(options.botKey) >>
    /\ impl = "promise" => usePromise = << Truthy(options.promise) >>
    /\ \A j \in PostsFor(c) \cup PostsFor(d) :
         posts[j].url[1] = "https://api.telegram.org/bot"
    /\ calls[c].pc = "settled" /\ ErrorsOf(c) # << >>
    /\ calls[d].pc = "inflight"

(***************************************************************************)
(* C14.  Every POST issued by a facade method targets a URL beginning      *)
(* with https://api.telegram.org/bot<botKey>/, also when the method is     *)
(* called on a service whose onModuleInit has not run yet.                 *)
(***************************************************************************)
C14_PostsUnderBotUrl ==
  \A j \in DOMAIN posts :
    /\ Len(posts[j].url) = Len(BaseUrl(options.botKey)) + 1
    /\ SubSeq(posts[j].url, 1, Len(BaseUrl(options.botKey)))
         = BaseUrl(options.botKey)

(***************************************************************************)
(* C15.  sendMediaGroup and editMessageMedia called with media entries     *)
(* that are all strings issue their request as JSON, not as multipart      *)
(* form data.                                                              *)
(***************************************************************************)
C15_StringMediaSelectsJson ==
  \A c \in DOMAIN calls :
    (calls[c].method \in {"sendMediaGroup", "editMessageMedia"}
       /\ calls[c].data["media"] = "string") =>
      \A j \in PostsFor(c) : ContentTypeOf(posts[j]) # << Multipart >>

(***************************************************************************)
(* C16.  In the promise-capable class a call with neither the per-call     *)
(* promise option nor the module's promise flag set, the options argument  *)
(* omitted altogether included, issues its POST and is delivered as a      *)
(* stream; it does not fail before returning.                              *)
(***************************************************************************)
C16_NoPromiseOptionDeliversStream ==
  \A c \in DOMAIN calls :
    (impl = "promise"
       /\ (calls[c].opts = << >> \/ ~ Truthy(calls[c].opts[1].promise))
       /\ ~ Truthy(options.promise)) =>
      /\ Cardinality(PostsFor(c)) = 1
      /\ calls[c].mode = "stream"
      /\ \A k \in DOMAIN calls[c].events : calls[c].events[k].ch # "throw"

(***************************************************************************)
(* C17.  A call delivered as a stream has exactly one terminal outcome:    *)
(* nothing while it is in flight; after a successful response one value    *)
(* followed by completion; after a failed response or a transport failure  *)
(* one error signal and no value.  Never a value and an error, never two   *)
(* values.                                                                 *)
(***************************************************************************)
\* the channels of a sequence of events, in order
RECURSIVE ChannelsOf(_)
ChannelsOf(evs) ==
  IF evs = << >> THEN << >>
  ELSE << Head(evs).ch >> \o ChannelsOf(Tail(evs))

C17_OneTerminalOutcome ==
  \A c \in DOMAIN calls :
    calls[c].mode = "stream" =>
      /\ calls[c].pc = "inflight" => calls[c].events = << >>
      /\ (IsResponse(c) /\ EnvelopeOf(c).ok) =>
           ChannelsOf(calls[c].events) = << "next", "complete" >>
      /\ (IsFailure(c) \/ (IsResponse(c) /\ ~ EnvelopeOf(c).ok)) =>
           ChannelsOf(calls[c].events) = << "error" >>
      /\ Len(ValuesOf(c)) <= 1
      /\ ValuesOf(c) = << >> \/ ErrorsOf(c) = << >>

\* a stream call answered {ok: false, ...} has signalled exactly one error
C17_Witness ==
  \E c \in DOMAIN calls :
    /\ calls[c].mode = "stream"
    /\ IsResponse(c) /\ ~ EnvelopeOf(c).ok
    /\ Len(calls[c].events) = 1
    /\ calls[c].events[1].ch = "error"

(***************************************************************************)
(* C18.  sendMediaGroup with binary media and setChatPhoto with a binary   *)
(* photo issue their POST with request options equal to exactly            *)
(* {headers: {'Content-Type': 'multipart/form-data'}}: one header, no      *)
(* other.                                                                  *)
(***************************************************************************)
C18_ExactlyTheMultipartHeader ==
  \A c \in DOMAIN calls :
    (\/ calls[c].method = "sendMediaGroup" /\ calls[c].data["media"] = "binary"
     \/ calls[c].method = "setChatPhoto" /\ calls[c].data["photo"] = "binary") =>
      /\ PostsFor(c) # {}
      /\ \A j \in PostsFor(c) :
           /\ Len(posts[j].config) = 1
           /\ DOMAIN posts[j].config[1] = {"Content-Type"}
           /\ posts[j].config[1]["Content-Type"] = "multipart/form-data"

\* setChatPhoto({photo: <Buffer>}) has posted with the multipart header
C18_Witness ==
  \E c \in DOMAIN calls :
    /\ calls[c].method = "setChatPhoto"
    /\ calls[c].data["photo"] = "binary"
    /\ \E j \in PostsFor(c) :
         posts[j].config = << [h \in {"Content-Type"} |-> "multipart/form-data"] >>

(***************************************************************************)
(* C19.  An asynchronous registration yields exactly one provider, the     *)
(* options provider, when useFactory or useExisting is given, and exactly  *)
(* two, the options provider and the useClass class itself, when only      *)
(* useClass is given; the imports are the ones supplied, or the empty      *)
(* list when none are.                                                     *)
(***************************************************************************)
C19_AsyncProviders ==
  dynamicModule # << >> =>
    LET o == registration[1]
        dm == dynamicModule[1]
    IN /\ dm.providers[1].provide = << "TELEGRAM_MODULE_OPTIONS" >>
       /\ (o.useFactory # << >> \/ o.useExisting # << >>) =>
            Len(dm.providers) = 1
       /\ (o.useFactory = << >> /\ o.useExisting = << >>
             /\ o.useClass # << >>) =>
            /\ Len(dm.providers) = 2
            /\ dm.providers[2].provide = o.useClass
            /\ dm.providers[2].useClass = o.useClass
       /\ o.imports = << >> => dm.imports = << >>
       /\ o.imports # << >> => dm.imports = o.imports[1]

\* forRootAsync({useExisting: ExistingConfig, useClass: ClassConfig}) has
\* returned a module with the options provider alone and no imports
C19_Witness ==
  /\ dynamicModule # << >>
  /\ registration[1].useFactory = << >>
  /\ registration[1].useExisting = << "ExistingConfig" >>
  /\ registration[1].useClass = << "ClassConfig" >>
  /\ registration[1].imports = << >>
  /\ Len(dynamicModule[1].providers) = 1
  /\ dynamicModule[1].imports = << >>

(***************************************************************************)
(* C20.  A response whose envelope has ok = false, with or without an      *)
(* error_code, fails the call through the failure channel with an error    *)
(* whose message is the envelope's description.                            *)
(***************************************************************************)
C20_FailureMessageIsDescription ==
  \A c \in DOMAIN calls :
    (IsResponse(c) /\ ~ EnvelopeOf(c).ok) =>
      /\ ValuesOf(c) = << >>
      /\ Len(ErrorsOf(c)) = 1
      /\ ErrorsOf(c)[1].error[1].message = EnvelopeOf(c).description

(***************************************************************************)
(* C21.  In the promise-capable class a call made once onModuleInit has    *)
(* run is delivered as a promise if and only if its per-call promise       *)
(* option is true or the module's promise flag is true; the flag kept by   *)
(* the service is false when none was configured, and a per-call           *)
(* promise = false does not turn a module-level true back into a stream.   *)
(***************************************************************************)
\* the calls issued after onModuleInit: their POST went to the bot URL
IssuedAfterInit(c) ==
  \A j \in PostsFor(c) : posts[j].url[1] # "undefined"

C21_PromiseIffRequested ==
  impl = "promise" =>
    /\ usePromise # << >> => usePromise = << Truthy(options.promise) >>
    /\ \A c \in DOMAIN calls :
         IssuedAfterInit(c) =>
           (calls[c].mode = "promise"
              <=> \/ (calls[c].opts # << >> /\ Truthy(calls[c].opts[1].promise))
                  \/ Truthy(options.promise))

(***************************************************************************)
(* C22.  The content type of a file-accepting call is a function of the    *)
(* kinds (binary, string, absent) of the method's own file fields only:    *)
(* two calls of the same method whose own file fields have the same kinds  *)
(* are posted with the same Content-Type, whatever their other fields are  *)
(* (sendVoice ignores video_note, sendPhoto ignores thumb) and whatever    *)
(* became of the calls made before.                                        *)
(***************************************************************************)
\* the file fields of method m: its main field and, where it has one, thumb
OwnFileFields(m) ==
  {MainField(m)} \cup (IF m \in ThumbMethods THEN {"thumb"} ELSE {})

C22_ContentTypeFromOwnFileFields ==
  \A c, d \in DOMAIN calls :
    (/\ calls[c].method \in UploadMethods
     /\ calls[c].method = calls[d].method
     /\ \A f \in OwnFileFields(calls[c].method) :
          calls[c].data[f] = calls[d].data[f]) =>
      \A j \in PostsFor(c) : \A k \in PostsFor(d) :
        ContentTypeOf(posts[j]) = ContentTypeOf(posts[k])

\* sendVoice({voice: 'id'}) was answered; a later sendVoice({voice: 'id',
\* video_note: <Buffer>}) was posted as JSON like the first
C22_Witness ==
  \E c, d \in DOMAIN calls :
    /\ c < d
    /\ calls[c].method = "sendVoice" /\ calls[d].method = "sendVoice"
    /\ calls[c].data["voice"] = "string" /\ calls[d].data["voice"] = "string"
    /\ calls[c].data["thumb"] = "absent" /\ calls[d].data["thumb"] = "absent"
    /\ calls[c].data["video_note"] = "absent"
    /\ calls[d].data["video_note"] = "binary"
    /\ ValuesOf(c) # << >>
    /\ \A j \in PostsFor(c) \cup PostsFor(d) :
         ContentTypeOf(posts[j]) = << Json >>

(***************************************************************************)
(* C23.  The two service classes agree: for every method they share (all   *)
(* but getUpdates), a call delivered as a stream posts the URL path, body  *)
(* and Content-Type the other class posts for the same parameters, and     *)
(* has the outcome the other class gives for the same transport answer,    *)
(* setChatPhoto included.                                                  *)
(***************************************************************************)
\* the class that was not constructed
OtherImpl == IF impl = "stream" THEN "promise" ELSE "stream"

C23_ImplementationsAgree ==
  \A c \in DOMAIN calls :
    (calls[c].mode = "stream" /\ calls[c].method \in Methods(OtherImpl)) =>
      /\ \A j \in PostsFor(c) :
           /\ posts[j].url[Len(posts[j].url)] = NameArg(calls[c].method)
           /\ posts[j].data = calls[c].data
           /\ ContentTypeOf(posts[j])
                = ContentTypeOf([config |-> AxiosOptions(OtherImpl,
                                                         calls[c].method,
                                                         calls[c].data)])
      /\ calls[c].answer # << >> =>
           calls[c].events = Subscribe(Callout(calls[c].answer[1]))

(***************************************************************************)
(* C24.  The body of the POST of every facade call is exactly the          *)
(* parameter object the caller passed, and neither the call nor its        *)
(* answer changes that object or the body; getMe, which takes no           *)
(* parameters, posts an empty object.                                      *)
(***************************************************************************)
C24_BodyIsTheParameterObject ==
  [][ /\ \A j \in DOMAIN posts' :
           /\ posts'[j].data = calls'[posts'[j].call].data
           /\ calls'[posts'[j].call].method = "getMe" =>
                posts'[j].data = EmptyData
      /\ \A c \in DOMAIN calls : calls'[c].data = calls[c].data
      /\ \A j \in DOMAIN posts : posts'[j].data = posts[j].data ]_vars

\* sendMessage({text: '...'}) has been posted with that object as its body
\* and has been answered since
C24_Witness ==
  \E c \in DOMAIN calls :
    /\ calls[c].method = "sendMessage"
    /\ calls[c].data["text"] = "string"
    /\ calls[c].pc = "settled" /\ calls[c].answer # << >>
    /\ \E j \in PostsFor(c) : posts[j].data["text"] = "string"

(***************************************************************************)
(* C25.  The options provider of an asynchronous registration resolves     *)
(* the module options by precedence useFactory, useExisting, useClass:     *)
(* with useFactory given the options are the result of that factory        *)
(* called with its inject list (empty when none is given), whatever        *)
(* useExisting and useClass are; otherwise they are the result of          *)
(* createTelegramOptions() on the useExisting instance, or on the useClass *)
(* instance when useExisting is absent.                                    *)
(***************************************************************************)
\* the options injected into the service are the resolved ones
Resolved == options.botKey \notin BotKeys

C25_OptionsByPrecedence ==
  dynamicModule # << >> =>
    LET o == registration[1]
        p == dynamicModule[1].providers[1]
    IN /\ o.useFactory # << >> =>
            /\ p.useFactory = o.useFactory
            /\ p.inject = (IF o.inject = << >> THEN << >> ELSE o.inject[1])
            /\ Resolved =>
                 options.botKey = (IF o.inject \in {<< >>, << << >> >>}
                                   THEN "someKey" ELSE "injectedKey")
       /\ (o.useFactory = << >> /\ o.useExisting # << >>) =>
            /\ p.inject = << o.useExisting >>
            /\ Resolved => options.botKey = "existingKey"
       /\ (o.useFactory = << >> /\ o.useExisting = << >>
             /\ o.useClass # << >>) =>
            /\ p.inject = << o.useClass >>
            /\ Resolved => options.botKey = "classKey"

\* registered with useExisting and useClass and no factory, the options
\* have been resolved from the useExisting instance
C25_Witness ==
  /\ dynamicModule # << >>
  /\ registration[1].useFactory = << >>
  /\ registration[1].useExisting = << "ExistingConfig" >>
  /\ registration[1].useClass = << "ClassConfig" >>
  /\ options.botKey = "existingKey"

(***************************************************************************)
(* C26.  Every facade call whose request the transport answers, with a     *)
(* response or with a failure, eventually has delivered exactly one        *)
(* outcome, a result or a failure, to its caller, however many other       *)
(* calls are in flight; and no call ever has more than one outcome.        *)
(***************************************************************************)
C26_AnsweredCallsDeliverOnce ==
  /\ \A c \in 1..MaxCalls :
       (c \in DOMAIN calls /\ calls[c].pc = "inflight")
         ~> (/\ c \in DOMAIN calls
             /\ calls[c].answer # << >>
             /\ Len(ValuesOf(c)) + Len(ErrorsOf(c)) = 1)
  /\ [](\A c \in DOMAIN calls : Len(ValuesOf(c)) + Len(ErrorsOf(c)) <= 1)

\* two calls were in flight together; both have been answered, the second
\* with a failure, and each has its one outcome
C26_Witness ==
  \E c, d \in DOMAIN calls :
    /\ c < d
    /\ IsResponse(c) /\ Len(ValuesOf(c)) = 1 /\ ErrorsOf(c) = << >>
    /\ IsFailure(d) /\ Len(ErrorsOf(d)) = 1 /\ ValuesOf(d) = << >>

====
